---- MODULE Spec2Model ----
(***************************************************************************)
(* Model of the Streamlit pages of indices-del-futuro:                     *)
(*   - graficos.py: the three time-series charts (CSV load, year filter,   *)
(*     series assembly, DataFrame, chart or "no data" message);            *)
(*   - mapas.py: get_all_data, the spectral indices of one pixel.          *)
(* A CSV field is a sequence of one-character strings, so that int(),      *)
(* float() and str.strip() are computed character by character.  A float   *)
(* is held as an integer number of tenths (12.5 is 125).                   *)
(***************************************************************************)
EXTENDS Integers, Sequences, FiniteSets, TLC

VARIABLES
    \* ---- graficos.py ----
    graph,              \* st.selectbox value, "None" while the placeholder shows
    year_range,         \* st.slider value <<start, end>>
    primary_loss,       \* checkbox veg_loss_primary
    secondary_loss,     \* checkbox veg_loss_secondary
    consolidated_veg,   \* checkbox consolidated_veg
    recovering_veg,     \* checkbox recovering_veg
    pc,                 \* "idle": script run finished; "load": reading the CSV
    data,               \* rows appended so far by the csv.reader loop
    filtered_rows,      \* the rows kept by the filter
    years,              \* the year axis
    df,                 \* the DataFrame: [built, index, columns]
    shown,              \* "nothing", "info" (no data message) or "line_chart"
    raised,             \* "none", or the exception that ended the script run
    csvfile,            \* the CSV on disk: header bytes, and open()'s default encoding
    epc,                \* position in initialize_ee
    private_key,        \* what st.secrets["EE_PRIVATE_KEY"] is
    key_path,           \* the local key_path: Unbound, or a temporary file
    tmpfiles,           \* the temporary files that exist on disk
    written,            \* the temporary files this call of initialize_ee wrote
    created,            \* how many temporary files were ever created
    ee_ret,             \* "pending", or what initialize_ee returned
    ee_raised,          \* "none", or the exception that left initialize_ee
    mainpc,             \* position in main
    capa_seleccionada,  \* the layer selectbox
    data_bound,         \* whether main's local name data is assigned
    layers,             \* the layers added to the map m, in order
    main_shown,         \* what main left on the page
    main_raised,        \* "none", or the exception that left main
    \* ---- mapas.py ----
    mpc,                \* position inside get_all_data
    bands,              \* the median composite at one pixel: B2, B4, B8, B11
    locals,             \* local names of get_all_data bound so far -> value
    gee_error,          \* st.error("Error obteniendo datos de GEE ...") was shown
    ret                 \* what get_all_data returned: [returned, none, value]

gvars == <<graph, year_range, primary_loss, secondary_loss, consolidated_veg,
           recovering_veg, pc, data, filtered_rows, years, df, shown, raised>>
mvars == <<mpc, bands, locals, gee_error, ret>>
cvars == <<csvfile>>
evars == <<epc, private_key, key_path, tmpfiles, written, created, ee_ret, ee_raised>>
xvars == <<mainpc, capa_seleccionada, data_bound, layers, main_shown, main_raised>>
vars == <<gvars, mvars, cvars, evars, xvars>>
notGraficos == <<mvars, cvars, evars, xvars>>
notGetAllData == <<gvars, cvars, evars, xvars>>
notCarga == <<mvars, evars, xvars>>
notInitializeEe == <<gvars, mvars, cvars, xvars>>
notMapas == <<gvars, cvars>>

(***************************************************************************)
(* Bounds of the model.                                                    *)
(***************************************************************************)
MaxRows == 2        \* data rows after the header in a CSV file
MaxBand == 4        \* band values are 0..MaxBand

(***************************************************************************)
(* Text: characters, str.strip(), int(), float().                          *)
(***************************************************************************)
DigitChars == <<"0", "1", "2", "3", "4", "5", "6", "7", "8", "9">>

IsDigit(c) == \E d \in 1..10 : DigitChars[d] = c

DigitValue(c) == (CHOOSE d \in 1..10 : DigitChars[d] = c) - 1

IsSpace(c) == c = " "

RECURSIVE LStrip(_)
LStrip(s) == IF Len(s) > 0 /\ IsSpace(Head(s)) THEN LStrip(Tail(s)) ELSE s

RECURSIVE RStrip(_)
RStrip(s) ==
    IF Len(s) > 0 /\ IsSpace(s[Len(s)]) THEN RStrip(SubSeq(s, 1, Len(s) - 1)) ELSE s

\* str.strip()
Strip(s) == RStrip(LStrip(s))

AllDigits(s) == \A i \in 1..Len(s) : IsDigit(s[i])

RECURSIVE DigitsValue(_)
DigitsValue(s) ==
    IF Len(s) = 0 THEN 0
    ELSE 10 * DigitsValue(SubSeq(s, 1, Len(s) - 1)) + DigitValue(s[Len(s)])

HasSign(s) == Len(s) > 0 /\ s[1] \in {"-", "+"}

Unsigned(s) == IF HasSign(s) THEN Tail(s) ELSE s

Signed(s, n) == IF HasSign(s) /\ s[1] = "-" THEN 0 - n ELSE n

\* int(text): surrounding whitespace is ignored, then an optional sign and
\* one or more digits; anything else is a ValueError.
ParseInt(text) ==
    LET s == Strip(text)
        u == Unsigned(s)
    IN  IF Len(u) > 0 /\ AllDigits(u)
        THEN [ok |-> TRUE, val |-> Signed(s, DigitsValue(u))]
        ELSE [ok |-> FALSE, val |-> 0]

PointAt(u) == {i \in 1..Len(u) : u[i] = "."}

\* float() that loses the fractional digits
ParseFloat_Truncating(text) ==
    LET s == Strip(text)
        u == Unsigned(s)
        p == PointAt(u)
        k == IF p = {} THEN Len(u) + 1 ELSE CHOOSE i \in p : TRUE
        ip == SubSeq(u, 1, k - 1)
        fp == SubSeq(u, k + 1, Len(u))
    IN  IF /\ Cardinality(p) <= 1
           /\ AllDigits(ip) /\ AllDigits(fp)
           /\ Len(ip) + Len(fp) > 0
        THEN [ok |-> TRUE, val |-> Signed(s, 10 * DigitsValue(ip))]
        ELSE [ok |-> FALSE, val |-> 0]

\* float(text) over the alphabet digits, ".", sign, space and letters:
\* [sign] digits [. [digits]] or [sign] . digits; the value is in tenths.
ParseFloat(text) ==
    LET s == Strip(text)
        u == Unsigned(s)
        p == PointAt(u)
        k == IF p = {} THEN Len(u) + 1 ELSE CHOOSE i \in p : TRUE
        ip == SubSeq(u, 1, k - 1)
        fp == SubSeq(u, k + 1, Len(u))
        tenth == IF Len(fp) > 0 THEN DigitValue(fp[1]) ELSE 0
    IN  IF /\ Cardinality(p) <= 1
           /\ AllDigits(ip) /\ AllDigits(fp)
           /\ Len(ip) + Len(fp) > 0
        THEN [ok |-> TRUE, val |-> Signed(s, 10 * DigitsValue(ip) + tenth)]
        ELSE [ok |-> FALSE, val |-> 0]

(***************************************************************************)
(* The CSV files: a header row, then rows drawn from a pool that holds     *)
(* rows written from known tuples and malformed rows.                      *)
(***************************************************************************)
RECURSIVE FormatNat(_)
FormatNat(n) ==
    IF n < 10 THEN <<DigitChars[n + 1]>>
    ELSE Append(FormatNat(n \div 10), DigitChars[(n % 10) + 1])

\* a value in tenths written with one decimal: 125 is 12.5, 30 is 3.0
FormatValue(t) == FormatNat(t \div 10) \o <<".">> \o FormatNat(t % 10)

FormatRow(t) ==
    [i \in 1..Len(t.values) |-> FormatValue(t.values[i])] \o <<FormatNat(t.year)>>

LossTuples ==
    { [year |-> 2000, values |-> <<125, 30>>],
      [year |-> 2020, values |-> <<80, 10>>],
      [year |-> 1990, values |-> <<5, 70>>] }

CoverTuples ==
    { [year |-> 2000, values |-> <<401, 202, 253, 104, 35, 5>>],
      [year |-> 2020, values |-> <<380, 190, 290, 100, 30, 10>>],
      [year |-> 1990, values |-> <<420, 210, 230, 100, 40, 0>>] }

Prefixes(row) == {SubSeq(row, 1, n) : n \in 0..(Len(row) - 1)}

WithField(row, col, text) == [row EXCEPT ![col + 1] = text]

LossSample == FormatRow([year |-> 2000, values |-> <<125, 30>>])

CoverSample == FormatRow([year |-> 2000, values |-> <<401, 202, 253, 104, 35, 5>>])

LossRowPool ==
    {FormatRow(t) : t \in LossTuples}
    \cup Prefixes(LossSample)
    \cup { WithField(LossSample, 2, <<>>),
           WithField(LossSample, 2, <<" ", " ">>),
           WithField(LossSample, 2, <<" ", "2", "0", "2", "0">>),
           WithField(LossSample, 2, <<"2", "0", "x", "0">>),
           WithField(LossSample, 0, <<"x">>),
           WithField(LossSample, 1, <<"x">>) }

CoverRowPool ==
    {FormatRow(t) : t \in CoverTuples}
    \cup Prefixes(CoverSample)
    \cup { WithField(CoverSample, 6, <<>>),
           WithField(CoverSample, 6, <<" ", " ">>),
           WithField(CoverSample, 3, <<"x">>) }

Graphs == {"Perdida de Vegetacion", "Vegetacion secundaria", "Cobertura de suelo"}

RowPool(g) == IF g = "Cobertura de suelo" THEN CoverRowPool ELSE LossRowPool

Header(g) ==
    IF g = "Cobertura de suelo"
    THEN <<<<"a">>, <<"b">>, <<"c">>, <<"d">>, <<"e">>, <<"f">>, <<"y">>>>
    ELSE <<<<"a">>, <<"b">>, <<"y">>>>

(***************************************************************************)
(* Widgets.                                                                *)
(***************************************************************************)
SliderMin == 1985
SliderMax == 2024
SliderDefault == <<2000, 2024>>

YearStops == {SliderMin, 2000, 2010, SliderMax}

YearRanges == {r \in YearStops \X YearStops : r[1] <= r[2]}

(***************************************************************************)
(* The script body of a chart.                                             *)
(***************************************************************************)
Min(S) == CHOOSE x \in S : \A y \in S : x <= y

\* the filter with the upper end of the range excluded
RowCheck_UpperExclusive(row, guard, ycol, yr) ==
    IF Len(row) = 0 THEN "drop"
    ELSE IF ~(Len(row) > guard) THEN "drop"
    ELSE IF ~(ycol + 1 <= Len(row)) THEN "IndexError"
    ELSE IF Len(Strip(row[ycol + 1])) = 0 THEN "drop"
    ELSE IF ~ParseInt(row[ycol + 1]).ok THEN "ValueError"
    ELSE IF yr[1] <= ParseInt(row[ycol + 1]).val /\ ParseInt(row[ycol + 1]).val < yr[2]
         THEN "keep"
         ELSE "drop"

\* the filter without the row[ycol].strip() condition
RowCheck_NoBlankTest(row, guard, ycol, yr) ==
    IF Len(row) = 0 THEN "drop"
    ELSE IF ~(Len(row) > guard) THEN "drop"
    ELSE IF ~(ycol + 1 <= Len(row)) THEN "IndexError"
    ELSE IF ~ParseInt(row[ycol + 1]).ok THEN "ValueError"
    ELSE IF yr[1] <= ParseInt(row[ycol + 1]).val /\ ParseInt(row[ycol + 1]).val <= yr[2]
         THEN "keep"
         ELSE "drop"

\* One row of the filter's comprehension, conditions in source order:
\*   row and len(row) > guard and row[ycol].strip()
\*       and year_range[0] <= int(row[ycol]) <= year_range[1]
RowCheck(row, guard, ycol, yr) ==
    IF Len(row) = 0 THEN "drop"
    ELSE IF ~(Len(row) > guard) THEN "drop"
    ELSE IF ~(ycol + 1 <= Len(row)) THEN "IndexError"
    ELSE IF Len(Strip(row[ycol + 1])) = 0 THEN "drop"
    ELSE IF ~ParseInt(row[ycol + 1]).ok THEN "ValueError"
    ELSE IF yr[1] <= ParseInt(row[ycol + 1]).val /\ ParseInt(row[ycol + 1]).val <= yr[2]
         THEN "keep"
         ELSE "drop"

RECURSIVE KeepRows(_, _, _, _)
KeepRows(rows, guard, ycol, yr) ==
    IF Len(rows) = 0 THEN <<>>
    ELSE IF RowCheck(Head(rows), guard, ycol, yr) = "keep"
         THEN <<Head(rows)>> \o KeepRows(Tail(rows), guard, ycol, yr)
         ELSE KeepRows(Tail(rows), guard, ycol, yr)

\* filtered_rows = [row for row in data[1:] if ...]: the first row that raises
\* ends the comprehension
FilterRows(rows, guard, ycol, yr) ==
    LET bad == {i \in 1..Len(rows) :
                    RowCheck(rows[i], guard, ycol, yr) \in {"IndexError", "ValueError"}}
    IN  IF bad # {}
        THEN [raised |-> RowCheck(rows[Min(bad)], guard, ycol, yr), rows |-> <<>>]
        ELSE [raised |-> "none", rows |-> KeepRows(rows, guard, ycol, yr)]

\* float(row[col]) of one row
CellCheck(row, col) ==
    IF ~(col + 1 <= Len(row)) THEN "IndexError"
    ELSE IF ~ParseFloat(row[col + 1]).ok THEN "ValueError"
    ELSE "ok"

\* the value list built over the rows in reverse order
FloatColumn_Reversed(rows, col) ==
    LET bad == {i \in 1..Len(rows) : CellCheck(rows[i], col) # "ok"}
    IN  IF bad # {}
        THEN [raised |-> CellCheck(rows[Min(bad)], col), vals |-> <<>>]
        ELSE [raised |-> "none",
              vals |-> [i \in 1..Len(rows) |->
                           ParseFloat(rows[Len(rows) + 1 - i][col + 1]).val]]

\* [float(row[col]) for row in filtered_rows]
FloatColumn(rows, col) ==
    LET bad == {i \in 1..Len(rows) : CellCheck(rows[i], col) # "ok"}
    IN  IF bad # {}
        THEN [raised |-> CellCheck(rows[Min(bad)], col), vals |-> <<>>]
        ELSE [raised |-> "none",
              vals |-> [i \in 1..Len(rows) |-> ParseFloat(rows[i][col + 1]).val]]

\* [0.0] * len(years)
Zeros(n) == [raised |-> "none", vals |-> [i \in 1..n |-> 0]]

\* [int(row[ycol]) for row in filtered_rows]
YearColumn(rows, ycol) == [i \in 1..Len(rows) |-> ParseInt(rows[i][ycol + 1]).val]

NoDf == [built |-> FALSE, index |-> <<>>, columns |-> <<>>]

\* pd.DataFrame({...}).set_index('Año'): arrays of unequal length are a ValueError
MakeDf(ys, cols) ==
    IF \E c \in 1..Len(cols) : Len(cols[c]) # Len(ys)
    THEN [raised |-> "ValueError", df |-> NoDf]
    ELSE [raised |-> "none", df |-> [built |-> TRUE, index |-> ys, columns |-> cols]]

\* df.empty that looks at the columns only
DfEmpty_ColumnsOnly(d) == Len(d.columns) = 0

\* df.empty
DfEmpty(d) == Len(d.index) = 0 \/ Len(d.columns) = 0

Outcome(fr, ys, d, sh, ex) ==
    [filtered_rows |-> fr, years |-> ys, df |-> d, shown |-> sh, raised |-> ex]

\* From the DataFrame on: build it, then st.info or st.line_chart
Render(fr, ys, cols) ==
    LET firstBad == {c \in 1..Len(cols) : cols[c].raised # "none"}
        made == MakeDf(ys, [c \in 1..Len(cols) |-> cols[c].vals])
    IN  IF firstBad # {}
        THEN Outcome(fr, ys, NoDf, "nothing", cols[Min(firstBad)].raised)
        ELSE IF made.raised # "none"
        THEN Outcome(fr, ys, NoDf, "nothing", made.raised)
        ELSE Outcome(fr, ys, made.df,
                     IF DfEmpty(made.df) THEN "info" ELSE "line_chart", "none")

\* the value lists with the untoggled quantity still read from the rows
TwoSeriesValues_OffStillRead(fr, ys, on0, on1) ==
    IF on0 /\ on1 THEN <<FloatColumn(fr, 0), FloatColumn(fr, 1)>>
    ELSE IF on0 THEN <<FloatColumn(fr, 0), FloatColumn(fr, 1)>>
    ELSE IF on1 THEN <<Zeros(Len(ys)), FloatColumn(fr, 1)>>
    ELSE <<Zeros(Len(ys)), Zeros(Len(ys))>>

\* The value lists of a two-series chart, by the if / elif / elif / else
TwoSeriesValues(fr, ys, on0, on1) ==
    IF on0 /\ on1 THEN <<FloatColumn(fr, 0), FloatColumn(fr, 1)>>
    ELSE IF on0 THEN <<FloatColumn(fr, 0), Zeros(Len(ys))>>
    ELSE IF on1 THEN <<Zeros(Len(ys)), FloatColumn(fr, 1)>>
    ELSE <<Zeros(Len(ys)), Zeros(Len(ys))>>

\* Script body of "Pérdida de Vegetación" and of "Vegetación secundaria"
TwoSeriesChart(dat, yr, on0, on1) ==
    IF Len(dat) = 0 THEN Outcome(<<>>, <<>>, NoDf, "nothing", "IndexError")
    ELSE LET f == FilterRows(Tail(dat), 2, 2, yr)
             ys == YearColumn(f.rows, 2)
         IN  IF f.raised # "none"
             THEN Outcome(<<>>, <<>>, NoDf, "nothing", f.raised)
             ELSE Render(f.rows, ys, TwoSeriesValues(f.rows, ys, on0, on1))

\* Script body of "Cobertura de suelo"
CoverChart(dat, yr) ==
    IF Len(dat) = 0 THEN Outcome(<<>>, <<>>, NoDf, "nothing", "IndexError")
    ELSE LET f == FilterRows(Tail(dat), 4, 6, yr)
             ys == YearColumn(f.rows, 6)
         IN  IF f.raised # "none"
             THEN Outcome(<<>>, <<>>, NoDf, "nothing", f.raised)
             ELSE Render(f.rows, ys, [c \in 1..6 |-> FloatColumn(f.rows, c - 1)])

(***************************************************************************)
(* graficos.py as a state machine: a widget change reruns the script.      *)
(***************************************************************************)
ClearOutputs ==
    /\ filtered_rows' = <<>>
    /\ years' = <<>>
    /\ df' = NoDf
    /\ shown' = "nothing"
    /\ raised' = "none"

StartRun ==
    /\ pc' = "load"
    /\ data' = <<>>
    /\ ClearOutputs

Finish(o) ==
    /\ pc' = "idle"
    /\ filtered_rows' = o.filtered_rows
    /\ years' = o.years
    /\ df' = o.df
    /\ shown' = o.shown
    /\ raised' = o.raised

InitGraficos ==
    /\ graph = "None"
    /\ year_range = SliderDefault
    /\ primary_loss = TRUE
    /\ secondary_loss = TRUE
    /\ consolidated_veg = TRUE
    /\ recovering_veg = TRUE
    /\ pc = "idle"
    /\ data = <<>>
    /\ filtered_rows = <<>>
    /\ years = <<>>
    /\ df = NoDf
    /\ shown = "nothing"
    /\ raised = "none"

\* The selectbox: widgets that the new branch does not render lose their value
SelectGraph(g) ==
    /\ pc = "idle"
    /\ g # graph
    /\ graph' = g
    /\ year_range' = IF g = "None" THEN SliderDefault ELSE year_range
    /\ primary_loss' = TRUE
    /\ secondary_loss' = TRUE
    /\ consolidated_veg' = TRUE
    /\ recovering_veg' = TRUE
    /\ IF g = "None"
       THEN pc' = "idle" /\ data' = <<>> /\ ClearOutputs
       ELSE StartRun

TogglePrimaryLoss ==
    /\ pc = "idle" /\ graph = "Perdida de Vegetacion"
    /\ primary_loss' = ~primary_loss
    /\ StartRun
    /\ UNCHANGED <<graph, year_range, secondary_loss, consolidated_veg, recovering_veg>>

ToggleSecondaryLoss ==
    /\ pc = "idle" /\ graph = "Perdida de Vegetacion"
    /\ secondary_loss' = ~secondary_loss
    /\ StartRun
    /\ UNCHANGED <<graph, year_range, primary_loss, consolidated_veg, recovering_veg>>

ToggleConsolidatedVeg ==
    /\ pc = "idle" /\ graph = "Vegetacion secundaria"
    /\ consolidated_veg' = ~consolidated_veg
    /\ StartRun
    /\ UNCHANGED <<graph, year_range, primary_loss, secondary_loss, recovering_veg>>

ToggleRecoveringVeg ==
    /\ pc = "idle" /\ graph = "Vegetacion secundaria"
    /\ recovering_veg' = ~recovering_veg
    /\ StartRun
    /\ UNCHANGED <<graph, year_range, primary_loss, secondary_loss, consolidated_veg>>

MoveSlider(r) ==
    /\ pc = "idle" /\ graph \in Graphs
    /\ r # year_range
    /\ year_range' = r
    /\ StartRun
    /\ UNCHANGED <<graph, primary_loss, secondary_loss, consolidated_veg, recovering_veg>>

widgets == <<graph, year_range, primary_loss, secondary_loss, consolidated_veg,
             recovering_veg>>
outputs == <<filtered_rows, years, df, shown, raised>>

\* for row in reader: data.append(row) -- the header line
ReadHeader ==
    /\ pc = "load" /\ Len(data) = 0
    /\ data' = <<Header(graph)>>
    /\ UNCHANGED <<widgets, pc, outputs>>

\* for row in reader: data.append(row) -- a data line
ReadRow(row) ==
    /\ pc = "load" /\ Len(data) >= 1 /\ Len(data) < 1 + MaxRows
    /\ data' = Append(data, row)
    /\ UNCHANGED <<widgets, pc, outputs>>

\* End of file reached: the rest of the branch runs
PerdidaDeVegetacion ==
    /\ pc = "load" /\ graph = "Perdida de Vegetacion"
    /\ Finish(TwoSeriesChart(data, year_range, primary_loss, secondary_loss))
    /\ UNCHANGED <<widgets, data>>

VegetacionSecundaria ==
    /\ pc = "load" /\ graph = "Vegetacion secundaria"
    /\ Finish(TwoSeriesChart(data, year_range, consolidated_veg, recovering_veg))
    /\ UNCHANGED <<widgets, data>>

CoberturaDeSuelo ==
    /\ pc = "load" /\ graph = "Cobertura de suelo"
    /\ Finish(CoverChart(data, year_range))
    /\ UNCHANGED <<widgets, data>>

(***************************************************************************)
(* mapas.py: pixel arithmetic.  A pixel value is a fraction num/den with   *)
(* den > 0, or undefined (den = 0) after a division by zero.               *)
(***************************************************************************)
Abs(n) == IF n < 0 THEN 0 - n ELSE n

RECURSIVE Gcd(_, _)
Gcd(a, b) == IF b = 0 THEN a ELSE Gcd(b, a % b)

Undefined == [num |-> 0, den |-> 0]

IsDefined(v) == v.den # 0

Frac(n, d) ==
    IF d = 0 THEN Undefined
    ELSE LET g == Gcd(Abs(n), Abs(d))
             s == IF d < 0 THEN 0 - 1 ELSE 1
         IN  [num |-> (s * n) \div g, den |-> (s * d) \div g]

Num(n) == Frac(n, 1)

Add(a, b) ==
    IF IsDefined(a) /\ IsDefined(b)
    THEN Frac(a.num * b.den + b.num * a.den, a.den * b.den) ELSE Undefined

Subtract(a, b) ==
    IF IsDefined(a) /\ IsDefined(b)
    THEN Frac(a.num * b.den - b.num * a.den, a.den * b.den) ELSE Undefined

Multiply(a, b) ==
    IF IsDefined(a) /\ IsDefined(b)
    THEN Frac(a.num * b.num, a.den * b.den) ELSE Undefined

Divide(a, b) ==
    IF IsDefined(a) /\ IsDefined(b)
    THEN Frac(a.num * b.den, a.den * b.num) ELSE Undefined

Leq(a, b) == a.num * b.den <= b.num * a.den

Less(a, b) == a.num * b.den < b.num * a.den

\* the normalized difference with numerator and denominator exchanged
NormalizedDifference_Inverted(img, first, second) ==
    Divide(Add(Num(img[first]), Num(img[second])),
           Subtract(Num(img[first]), Num(img[second])))

\* s2.normalizedDifference([first, second]): (first - second) / (first + second)
NormalizedDifference(img, first, second) ==
    Divide(Subtract(Num(img[first]), Num(img[second])),
           Add(Num(img[first]), Num(img[second])))

\* '(1 + L) * ((NIR - RED) / (NIR + RED + L))' with L = 0.5
SaviExpression(NIR, RED, L) ==
    Multiply(Add(Num(1), L),
             Divide(Subtract(NIR, RED), Add(Add(NIR, RED), L)))

\* '2.5 * ((NIR - RED) / (NIR + 6 * RED - 7.5 * BLUE + 1))'
EviExpression(NIR, RED, BLUE) ==
    Multiply(Frac(5, 2),
             Divide(Subtract(NIR, RED),
                    Add(Subtract(Add(NIR, Multiply(Num(6), RED)),
                                 Multiply(Frac(15, 2), BLUE)),
                        Num(1))))

\* the composite index divided by NDBI itself, without the offset
IetExpression_NoOffset(ndmi, savi, evi, ndbi) ==
    Divide(Add(Add(ndmi, savi), evi), ndbi)

\* ndmi.add(savi).add(evi).divide(ndbi.add(1))
IetExpression(ndmi, savi, evi, ndbi) ==
    Divide(Add(Add(ndmi, savi), evi), Add(ndbi, Num(1)))

\* image.clip(region)
Clip(img, region) == [image |-> img, clip |-> region]

(***************************************************************************)
(* mapas.py: get_all_data, one statement per step; any Earth Engine call   *)
(* may raise, and the except branch reports the error and returns None.    *)
(***************************************************************************)
BandNames == {"B2", "B4", "B8", "B11"}

Pixels == [BandNames -> 0..MaxBand]

NotReturned == [returned |-> FALSE, none |-> FALSE, value |-> <<>>]

ReturnNone == [returned |-> TRUE, none |-> TRUE, value |-> <<>>]

Bind(name, value) == locals' = (name :> value) @@ locals

\* an except branch that hands back what was computed before the failure
OnException_Partial(loc) == [returned |-> TRUE, none |-> FALSE, value |-> loc]

\* except Exception as e: st.error(...); return None
OnException(loc) == ReturnNone

\* return {'iet': ..., 'ndmi': ..., 'savi': ..., 'evi': ..., 'ndbi': ..., 'region': region}
ReturnValue(loc) ==
    [returned |-> TRUE, none |-> FALSE,
     value |-> [k \in {"iet", "ndmi", "savi", "evi", "ndbi", "region"} |->
                   IF k = "region" THEN loc["region"]
                   ELSE Clip(loc[k], loc["region"])]]

InitMapasIdle ==
    /\ mpc = "idle"
    /\ bands = [b \in BandNames |-> 0]
    /\ locals = <<>>
    /\ gee_error = FALSE
    /\ ret = NotReturned

\* main calls get_all_data()
CallGetAllData ==
    /\ mpc \in {"idle", "done"}
    /\ mpc' = "region"
    /\ locals' = <<>>
    /\ gee_error' = FALSE
    /\ ret' = NotReturned
    /\ UNCHANGED bands

BindRegion ==
    /\ mpc = "region"
    /\ Bind("region", "Buenos Aires")
    /\ mpc' = "s2"
    /\ UNCHANGED <<bands, gee_error, ret>>

\* the 2023 median composite of B2, B4, B8, B11 at the pixel
BindS2(px) ==
    /\ mpc = "s2"
    /\ bands' = px
    /\ Bind("s2", px)
    /\ mpc' = "ndmi"
    /\ UNCHANGED <<gee_error, ret>>

BindNdmi ==
    /\ mpc = "ndmi"
    /\ Bind("ndmi", NormalizedDifference(locals["s2"], "B8", "B11"))
    /\ mpc' = "savi"
    /\ UNCHANGED <<bands, gee_error, ret>>

BindSavi ==
    /\ mpc = "savi"
    /\ Bind("savi", SaviExpression(Num(locals["s2"]["B8"]), Num(locals["s2"]["B4"]),
                                   Frac(1, 2)))
    /\ mpc' = "evi"
    /\ UNCHANGED <<bands, gee_error, ret>>

BindEvi ==
    /\ mpc = "evi"
    /\ Bind("evi", EviExpression(Num(locals["s2"]["B8"]), Num(locals["s2"]["B4"]),
                                 Num(locals["s2"]["B2"])))
    /\ mpc' = "ndbi"
    /\ UNCHANGED <<bands, gee_error, ret>>

BindNdbi ==
    /\ mpc = "ndbi"
    /\ Bind("ndbi", NormalizedDifference(locals["s2"], "B11", "B8"))
    /\ mpc' = "iet"
    /\ UNCHANGED <<bands, gee_error, ret>>

BindIet ==
    /\ mpc = "iet"
    /\ Bind("iet", IetExpression(locals["ndmi"], locals["savi"], locals["evi"],
                                 locals["ndbi"]))
    /\ mpc' = "return"
    /\ UNCHANGED <<bands, gee_error, ret>>

ReturnDict ==
    /\ mpc = "return"
    /\ ret' = ReturnValue(locals)
    /\ mpc' = "done"
    /\ UNCHANGED <<bands, locals, gee_error>>

\* an Earth Engine call of the current statement raises
RaiseInGetAllData ==
    /\ mpc \in {"region", "s2", "ndmi", "savi", "evi", "ndbi", "iet", "return"}
    /\ gee_error' = TRUE
    /\ ret' = OnException(locals)
    /\ mpc' = "done"
    /\ UNCHANGED <<bands, locals>>

(***************************************************************************)
(* Text encodings.  A text is a sequence of code points, a file holds      *)
(* bytes; open() decodes with the default encoding of the host.            *)
(***************************************************************************)
\* text.encode(enc)
RECURSIVE Encode(_, _)
Encode(text, enc) ==
    IF Len(text) = 0 THEN <<>>
    ELSE LET cp == Head(text)
         IN  (IF enc = "latin-1" \/ cp < 128 THEN <<cp>>
              ELSE <<192 + (cp \div 64), 128 + (cp % 64)>>)
             \o Encode(Tail(text), enc)

IsContinuation(b) == 128 <= b /\ b <= 191

\* bytes.decode("utf-8") for one- and two-byte sequences; a lead byte of a
\* longer sequence, a stray continuation byte or a missing continuation
\* byte is a UnicodeDecodeError
RECURSIVE DecodeUtf8(_)
DecodeUtf8(bytes) ==
    IF Len(bytes) = 0 THEN [ok |-> TRUE, text |-> <<>>]
    ELSE LET b == Head(bytes)
         IN  IF b < 128
             THEN LET rest == DecodeUtf8(Tail(bytes))
                  IN  [ok |-> rest.ok, text |-> <<b>> \o rest.text]
             ELSE IF 194 <= b /\ b <= 223 /\ Len(bytes) >= 2 /\ IsContinuation(bytes[2])
             THEN LET rest == DecodeUtf8(Tail(Tail(bytes)))
                  IN  [ok |-> rest.ok,
                       text |-> <<(b - 192) * 64 + (bytes[2] - 128)>> \o rest.text]
             ELSE [ok |-> FALSE, text |-> <<>>]

\* bytes.decode(enc): every byte is a Latin-1 character
Decode(bytes, enc) ==
    IF enc = "latin-1" THEN [ok |-> TRUE, text |-> bytes] ELSE DecodeUtf8(bytes)

\* the fields of one line, decoded
DecodeRow(fields, enc) ==
    [ok |-> \A i \in 1..Len(fields) : Decode(fields[i], enc).ok,
     row |-> [i \in 1..Len(fields) |-> Decode(fields[i], enc).text]]

Encodings == {"utf-8", "latin-1"}

\* header names as code points: a, b, ..., then "y" or "Año"
YearColumnNames == {<<121>>, <<65, 241, 111>>}

HeaderText(g, yname) ==
    [i \in 1..(IF g = "Cobertura de suelo" THEN 6 ELSE 2) |-> <<96 + i>>] \o <<yname>>

\* the files that can be on disk for chart g, with the host's default encoding
CsvFiles(g) ==
    {[header |-> [i \in 1..Len(HeaderText(g, n)) |-> Encode(HeaderText(g, n)[i], w)],
      encoding |-> e] :
        n \in YearColumnNames, w \in Encodings, e \in Encodings}

NoCsv == [header |-> <<>>, encoding |-> "utf-8"]

InitCsv == csvfile = NoCsv

\* the selectbox, with the chart's file as it is on disk
OpenCsv(g, f) ==
    /\ SelectGraph(g)
    /\ csvfile' = IF g = "None" THEN NoCsv ELSE f

\* for row in reader: the header line decodes
ReadEncodedHeader ==
    /\ pc = "load" /\ Len(data) = 0
    /\ DecodeRow(csvfile.header, csvfile.encoding).ok
    /\ data' = <<DecodeRow(csvfile.header, csvfile.encoding).row>>
    /\ UNCHANGED <<widgets, pc, outputs, csvfile>>

\* for row in reader: the header line does not decode; the exception leaves
\* the with block and ends the script run
HeaderDecodeError ==
    /\ pc = "load" /\ Len(data) = 0
    /\ ~DecodeRow(csvfile.header, csvfile.encoding).ok
    /\ Finish(Outcome(<<>>, <<>>, NoDf, "nothing", "UnicodeDecodeError"))
    /\ UNCHANGED <<widgets, data, csvfile>>

(***************************************************************************)
(* initialize_ee: the service-account key goes through a temporary file.   *)
(***************************************************************************)
\* temporary files created before initialize_ee is no longer called
MaxTemp == 3

\* st.secrets["EE_PRIVATE_KEY"]: absent, a dict, a string that is JSON, a
\* string that is not (a PEM key), or a value of another type
KeyKinds == {"missing", "dict", "json_str", "pem_str", "other"}

\* key_path before its first assignment
Unbound == [suffix |-> "", n |-> 0]

InitEe ==
    /\ epc = "idle"
    /\ private_key = "missing"
    /\ key_path = Unbound
    /\ tmpfiles = {}
    /\ written = {}
    /\ created = 0
    /\ ee_ret = "pending"
    /\ ee_raised = "none"

\* return v
ReturnEe(v) ==
    /\ epc' = "done"
    /\ ee_ret' = v

\* os.remove(key_path)
Remove(path) == tmpfiles' = tmpfiles \ {path}

\* initialize_ee(): the secrets lookup and the isinstance tests
CallInitializeEe(k) ==
    /\ epc \in {"idle", "done"}
    /\ created < MaxTemp
    /\ private_key' = k
    /\ key_path' = Unbound
    /\ written' = {}
    /\ ee_ret' = "pending"
    /\ ee_raised' = "none"
    /\ epc' = CASE k = "dict" -> "dict_write"
               [] k \in {"json_str", "pem_str"} -> "json_loads"
               [] OTHER -> "interactive"
    /\ UNCHANGED <<tmpfiles, created>>

\* key_path = _write_temp(content, suffix): NamedTemporaryFile(delete=False)
\* creates a file under a fresh name
WriteTemp(at, suffix, next) ==
    /\ epc = at
    /\ LET name == [suffix |-> suffix, n |-> created + 1]
       IN  /\ key_path' = name
           /\ tmpfiles' = tmpfiles \cup {name}
           /\ written' = written \cup {name}
    /\ created' = created + 1
    /\ epc' = next
    /\ UNCHANGED <<private_key, ee_ret, ee_raised>>

\* _write_temp raises before a file exists (no temporary directory, disk full)
WriteTempFails(at, handler) ==
    /\ epc = at
    /\ epc' = handler
    /\ UNCHANGED <<private_key, key_path, tmpfiles, written, created, ee_ret, ee_raised>>

\* creds = ee.ServiceAccountCredentials(...); ee.Initialize(creds);
\* os.remove(key_path); return True
InitializeWithKey(at) ==
    /\ epc = at
    /\ Remove(key_path)
    /\ ReturnEe("True")
    /\ UNCHANGED <<private_key, key_path, written, created, ee_raised>>

\* ee.ServiceAccountCredentials or ee.Initialize raises
InitializeWithKeyFails(at, handler) ==
    /\ epc = at
    /\ epc' = handler
    /\ UNCHANGED <<private_key, key_path, tmpfiles, written, created, ee_ret, ee_raised>>

\* except Exception as e: if os.path.exists(key_path): os.remove(key_path);
\* st.error(...); return False
ExceptRemove(at) ==
    /\ epc = at
    /\ IF key_path = Unbound
       THEN /\ epc' = "done"
            /\ ee_raised' = "UnboundLocalError: key_path"
            /\ UNCHANGED <<tmpfiles, ee_ret>>
       ELSE /\ Remove(key_path)
            /\ ReturnEe("False")
            /\ UNCHANGED ee_raised
    /\ UNCHANGED <<private_key, key_path, written, created>>

\* key_obj = json.loads(private_key)
JsonLoads ==
    /\ epc = "json_loads"
    /\ epc' = IF private_key = "json_str" THEN "json_write" ELSE "pem_write"
    /\ UNCHANGED <<private_key, key_path, tmpfiles, written, created, ee_ret, ee_raised>>

\* initialize_ee_interactive(): ee.Initialize(), else ee.Authenticate() and
\* ee.Initialize(), else False
InitializeEeInteractive(v) ==
    /\ epc = "interactive"
    /\ ReturnEe(v)
    /\ UNCHANGED <<private_key, key_path, tmpfiles, written, created, ee_raised>>

(***************************************************************************)
(* main of mapas.py: one run of the page.                                  *)
(***************************************************************************)
Capas == {"Indice IET", "NDMI", "SAVI", "EVI", "NDBI"}

\* the key of data that each selection reads
CapaKey(c) ==
    CASE c = "Indice IET" -> "iet"
      [] c = "NDMI" -> "ndmi"
      [] c = "SAVI" -> "savi"
      [] c = "EVI" -> "evi"
      [] c = "NDBI" -> "ndbi"

RegionLayer == "Limites Buenos Aires"

\* temporary files created before the page is no longer run again
MaxMainTemp == 1

InitMain ==
    /\ mainpc = "idle"
    /\ capa_seleccionada = "Indice IET"
    /\ data_bound = FALSE
    /\ layers = <<>>
    /\ main_shown = "nothing"
    /\ main_raised = "none"

\* leaving main: by return, or by an exception
LeaveMain(show, exc) ==
    /\ mainpc' = "done"
    /\ main_shown' = show
    /\ main_raised' = exc

\* main(): a run of the page with the selectbox at c, up to the call of
\* initialize_ee; nothing of the previous run's get_all_data call is left
StartMain(c, k) ==
    /\ mainpc \in {"idle", "done"}
    /\ created < MaxMainTemp
    /\ CallInitializeEe(k)
    /\ mainpc' = "initialize_ee"
    /\ capa_seleccionada' = c
    /\ data_bound' = FALSE
    /\ layers' = <<>>
    /\ main_shown' = "nothing"
    /\ main_raised' = "none"
    /\ mpc' = "idle"
    /\ bands' = [b \in BandNames |-> 0]
    /\ locals' = <<>>
    /\ gee_error' = FALSE
    /\ ret' = NotReturned

\* a step of initialize_ee, called from main
InMain(at, step) ==
    /\ mainpc = at
    /\ step

\* if not initialize_ee(): st.warning(...); return
\* the call is over: of its state only the temporary directory remains
AfterInitializeEe ==
    /\ mainpc = "initialize_ee"
    /\ epc = "done"
    /\ epc' = "idle"
    /\ private_key' = "missing"
    /\ key_path' = Unbound
    /\ written' = {}
    /\ ee_ret' = "pending"
    /\ ee_raised' = "none"
    /\ IF ee_raised # "none" THEN LeaveMain("nothing", ee_raised)
       ELSE IF ee_ret = "False" THEN LeaveMain("warning", "none")
       ELSE /\ mainpc' = "configure"
            /\ UNCHANGED <<main_shown, main_raised>>
    /\ UNCHANGED <<capa_seleccionada, data_bound, layers, mvars, tmpfiles, created>>

\* the two configuration blocks: the second one reads data['iet'] for
\* "Indice IET", and creates the sliders of the first block again for the
\* other selections, which Streamlit may refuse as duplicated widgets
Configure(refused) ==
    /\ mainpc = "configure"
    /\ IF capa_seleccionada = "Indice IET"
       THEN IF data_bound
            THEN /\ layers' = Append(layers, [name |-> "Indice IET", key |-> "iet"])
                 /\ mainpc' = "load"
                 /\ UNCHANGED <<main_shown, main_raised>>
            ELSE /\ LeaveMain("nothing", "UnboundLocalError: data")
                 /\ UNCHANGED layers
       ELSE /\ IF refused THEN LeaveMain("nothing", "DuplicateWidgetID")
               ELSE /\ mainpc' = "load"
                    /\ UNCHANGED <<main_shown, main_raised>>
            /\ UNCHANGED layers
    /\ UNCHANGED <<capa_seleccionada, data_bound, mvars, evars>>

\* data = get_all_data(): the call
LoadData ==
    /\ mainpc = "load"
    /\ CallGetAllData
    /\ mainpc' = "get_all_data"
    /\ UNCHANGED <<capa_seleccionada, data_bound, layers, main_shown, main_raised, evars>>

\* data = get_all_data(): the assignment; if data is None: st.error; return;
\* else the layer of the selection, the region outline, the statistics and
\* the map, or the error message of the except clause
AfterGetAllData(failed) ==
    /\ mainpc = "get_all_data"
    /\ ret.returned
    /\ data_bound' = TRUE
    /\ IF ret.none
       THEN /\ LeaveMain("error", "none")
            /\ UNCHANGED layers
       ELSE /\ layers' = layers \o
                  <<[name |-> capa_seleccionada, key |-> CapaKey(capa_seleccionada)],
                    [name |-> RegionLayer, key |-> "region"]>>
            /\ LeaveMain(IF failed THEN "error" ELSE "map", "none")
    /\ UNCHANGED <<capa_seleccionada, mvars, evars>>

Init == InitGraficos /\ InitMapasIdle /\ InitCsv /\ InitEe /\ InitMain

NextEe ==
    \/ \E k \in KeyKinds : CallInitializeEe(k) /\ UNCHANGED notInitializeEe
    \/ WriteTemp("dict_write", ".json", "dict_init") /\ UNCHANGED notInitializeEe
    \/ WriteTempFails("dict_write", "dict_except") /\ UNCHANGED notInitializeEe
    \/ InitializeWithKey("dict_init") /\ UNCHANGED notInitializeEe
    \/ InitializeWithKeyFails("dict_init", "dict_except") /\ UNCHANGED notInitializeEe
    \/ ExceptRemove("dict_except") /\ UNCHANGED notInitializeEe
    \/ JsonLoads /\ UNCHANGED notInitializeEe
    \/ WriteTemp("json_write", ".json", "json_init") /\ UNCHANGED notInitializeEe
    \/ WriteTempFails("json_write", "pem_write") /\ UNCHANGED notInitializeEe
    \/ InitializeWithKey("json_init") /\ UNCHANGED notInitializeEe
    \/ InitializeWithKeyFails("json_init", "pem_write") /\ UNCHANGED notInitializeEe
    \/ WriteTemp("pem_write", ".pem", "pem_init") /\ UNCHANGED notInitializeEe
    \/ WriteTempFails("pem_write", "pem_except") /\ UNCHANGED notInitializeEe
    \/ InitializeWithKey("pem_init") /\ UNCHANGED notInitializeEe
    \/ InitializeWithKeyFails("pem_init", "pem_except") /\ UNCHANGED notInitializeEe
    \/ ExceptRemove("pem_except") /\ UNCHANGED notInitializeEe
    \/ \E v \in {"True", "False"} : InitializeEeInteractive(v) /\ UNCHANGED notInitializeEe

SpecEe == Init /\ [][NextEe]_vars

NextMain ==
    \/ \E c \in Capas, k \in KeyKinds : StartMain(c, k) /\ UNCHANGED notMapas
    \/ InMain("initialize_ee", WriteTemp("dict_write", ".json", "dict_init")) /\ UNCHANGED notInitializeEe
    \/ InMain("initialize_ee", WriteTempFails("dict_write", "dict_except")) /\ UNCHANGED notInitializeEe
    \/ InMain("initialize_ee", InitializeWithKey("dict_init")) /\ UNCHANGED notInitializeEe
    \/ InMain("initialize_ee", InitializeWithKeyFails("dict_init", "dict_except")) /\ UNCHANGED notInitializeEe
    \/ InMain("initialize_ee", ExceptRemove("dict_except")) /\ UNCHANGED notInitializeEe
    \/ InMain("initialize_ee", JsonLoads) /\ UNCHANGED notInitializeEe
    \/ InMain("initialize_ee", WriteTemp("json_write", ".json", "json_init")) /\ UNCHANGED notInitializeEe
    \/ InMain("initialize_ee", WriteTempFails("json_write", "pem_write")) /\ UNCHANGED notInitializeEe
    \/ InMain("initialize_ee", InitializeWithKey("json_init")) /\ UNCHANGED notInitializeEe
    \/ InMain("initialize_ee", InitializeWithKeyFails("json_init", "pem_write")) /\ UNCHANGED notInitializeEe
    \/ InMain("initialize_ee", WriteTemp("pem_write", ".pem", "pem_init")) /\ UNCHANGED notInitializeEe
    \/ InMain("initialize_ee", WriteTempFails("pem_write", "pem_except")) /\ UNCHANGED notInitializeEe
    \/ InMain("initialize_ee", InitializeWithKey("pem_init")) /\ UNCHANGED notInitializeEe
    \/ InMain("initialize_ee", InitializeWithKeyFails("pem_init", "pem_except")) /\ UNCHANGED notInitializeEe
    \/ InMain("initialize_ee", ExceptRemove("pem_except")) /\ UNCHANGED notInitializeEe
    \/ \E v \in {"True", "False"} : InMain("initialize_ee", InitializeEeInteractive(v)) /\ UNCHANGED notInitializeEe
    \/ AfterInitializeEe /\ UNCHANGED notMapas
    \/ \E refused \in BOOLEAN : Configure(refused) /\ UNCHANGED notMapas
    \/ LoadData /\ UNCHANGED notMapas
    \/ InMain("get_all_data", BindRegion) /\ UNCHANGED notGetAllData
    \/ \E px \in Pixels : InMain("get_all_data", BindS2(px)) /\ UNCHANGED notGetAllData
    \/ InMain("get_all_data", BindNdmi) /\ UNCHANGED notGetAllData
    \/ InMain("get_all_data", BindSavi) /\ UNCHANGED notGetAllData
    \/ InMain("get_all_data", BindEvi) /\ UNCHANGED notGetAllData
    \/ InMain("get_all_data", BindNdbi) /\ UNCHANGED notGetAllData
    \/ InMain("get_all_data", BindIet) /\ UNCHANGED notGetAllData
    \/ InMain("get_all_data", ReturnDict) /\ UNCHANGED notGetAllData
    \/ InMain("get_all_data", RaiseInGetAllData) /\ UNCHANGED notGetAllData
    \/ \E failed \in BOOLEAN : AfterGetAllData(failed) /\ UNCHANGED notMapas

SpecMain == Init /\ [][NextMain]_vars

NextCarga ==
    \/ \E g \in Graphs \cup {"None"} : \E f \in CsvFiles(g) :
           OpenCsv(g, f) /\ UNCHANGED notCarga
    \/ ReadEncodedHeader /\ UNCHANGED notCarga
    \/ HeaderDecodeError /\ UNCHANGED notCarga
    \/ \E row \in RowPool(graph) : ReadRow(row) /\ UNCHANGED notGraficos
    \/ Len(data) >= 1 /\ PerdidaDeVegetacion /\ UNCHANGED notGraficos
    \/ Len(data) >= 1 /\ VegetacionSecundaria /\ UNCHANGED notGraficos
    \/ Len(data) >= 1 /\ CoberturaDeSuelo /\ UNCHANGED notGraficos

SpecCarga == Init /\ [][NextCarga]_vars

NextMapas ==
    \/ CallGetAllData /\ UNCHANGED notGetAllData
    \/ BindRegion /\ UNCHANGED notGetAllData
    \/ \E px \in Pixels : BindS2(px) /\ UNCHANGED notGetAllData
    \/ BindNdmi /\ UNCHANGED notGetAllData
    \/ BindSavi /\ UNCHANGED notGetAllData
    \/ BindEvi /\ UNCHANGED notGetAllData
    \/ BindNdbi /\ UNCHANGED notGetAllData
    \/ BindIet /\ UNCHANGED notGetAllData
    \/ ReturnDict /\ UNCHANGED notGetAllData
    \/ RaiseInGetAllData /\ UNCHANGED notGetAllData

SpecMapas == Init /\ [][NextMapas]_vars

Next ==
    \/ \E g \in Graphs \cup {"None"} : SelectGraph(g) /\ UNCHANGED notGraficos
    \/ TogglePrimaryLoss /\ UNCHANGED notGraficos
    \/ ToggleSecondaryLoss /\ UNCHANGED notGraficos
    \/ ToggleConsolidatedVeg /\ UNCHANGED notGraficos
    \/ ToggleRecoveringVeg /\ UNCHANGED notGraficos
    \/ \E r \in YearRanges : MoveSlider(r) /\ UNCHANGED notGraficos
    \/ ReadHeader /\ UNCHANGED notGraficos
    \/ \E row \in RowPool(graph) : ReadRow(row) /\ UNCHANGED notGraficos
    \/ PerdidaDeVegetacion /\ UNCHANGED notGraficos
    \/ VegetacionSecundaria /\ UNCHANGED notGraficos
    \/ CoberturaDeSuelo /\ UNCHANGED notGraficos

Spec == Init /\ [][Next]_vars

(***************************************************************************)
(* Vocabulary of the chart properties.  The reference reading of a row is  *)
(* the tuple it was written from, not what the script parses.              *)
(***************************************************************************)
Cover == graph = "Cobertura de suelo"

RunDone == pc = "idle" /\ graph \in Graphs

YearCol == IF Cover THEN 6 ELSE 2

ValueCols == IF Cover THEN 1..6 ELSE 1..2

\* the quantity in column c (1-based) is toggled on
ToggledOn(c) ==
    IF graph = "Perdida de Vegetacion"
    THEN (IF c = 1 THEN primary_loss ELSE secondary_loss)
    ELSE IF graph = "Vegetacion secundaria"
    THEN (IF c = 1 THEN consolidated_veg ELSE recovering_veg)
    ELSE TRUE

LossKnownRows == {FormatRow(t) : t \in LossTuples}

CoverKnownRows == {FormatRow(t) : t \in CoverTuples}

LossWrittenFrom == [r \in LossKnownRows |-> CHOOSE t \in LossTuples : FormatRow(t) = r]

CoverWrittenFrom == [r \in CoverKnownRows |-> CHOOSE t \in CoverTuples : FormatRow(t) = r]

KnownYears == {t.year : t \in LossTuples \cup CoverTuples}

YearText == [y \in KnownYears |-> FormatNat(y)]

\* the value columns of the known rows
KnownValueFields ==
    {SubSeq(r, 1, Len(r) - 1) : r \in LossKnownRows \cup CoverKnownRows}

\* the row is the text of one of the known tuples
IsKnownRow(row) == row \in (IF Cover THEN CoverKnownRows ELSE LossKnownRows)

\* the tuple a known row was written from
TupleOf(row) == IF Cover THEN CoverWrittenFrom[row] ELSE LossWrittenFrom[row]

InRange(y) == year_range[1] <= y /\ y <= year_range[2]

KnownInRange(row) == IsKnownRow(row) /\ InRange(TupleOf(row).year)

DataRows == IF Len(data) = 0 THEN <<>> ELSE Tail(data)

EveryDataRow(Test(_)) == Len(data) >= 1 /\ \A i \in 2..Len(data) : Test(data[i])

\* a row of full width whose year field is empty or only spaces
IsBlankYearRow(row) ==
    /\ Len(row) = YearCol + 1
    /\ \A i \in 1..Len(row[YearCol + 1]) : row[YearCol + 1][i] = " "
    /\ SubSeq(row, 1, YearCol) \in KnownValueFields

\* a row with fewer columns than the chart reads
IsShortRow(row) == Len(row) < YearCol + 1

\* a row of full width, integer year, and a value that is not a number
IsNonNumericRow(row) ==
    /\ Len(row) = YearCol + 1
    /\ \E y \in KnownYears : row[YearCol + 1] = YearText[y]
    /\ \E c \in ValueCols : row[c] = <<"x">>

\* a row of full width whose year field holds an integer, possibly padded
RowYears(row) ==
    IF Len(row) # YearCol + 1 THEN {}
    ELSE {y \in KnownYears : row[YearCol + 1] \in {YearText[y], <<" ">> \o YearText[y]}}

HasYearOutOfRange(row) == RowYears(row) # {} /\ \A y \in RowYears(row) : ~InRange(y)

KnownOrBlankYear(row) == IsKnownRow(row) \/ IsBlankYearRow(row)

KnownOrShort(row) == IsKnownRow(row) \/ IsShortRow(row)

KnownOrNonNumeric(row) == IsKnownRow(row) \/ IsNonNumericRow(row)

ZeroSeries(n) == [i \in 1..n |-> 0]

(***************************************************************************)
(* C1: for every range [s, e] and every file of well-formed rows, each     *)
(* chart's filter keeps exactly the non-header rows whose year is in       *)
(* s..e, in source order.                                                  *)
(***************************************************************************)
C1_FilterKeepsExactlyRange ==
    (RunDone /\ EveryDataRow(IsKnownRow)) =>
        /\ raised = "none"
        /\ filtered_rows = SelectSeq(DataRows, KnownInRange)

C1_Witness ==
    /\ RunDone /\ EveryDataRow(IsKnownRow)
    /\ Cover
    /\ Len(data) = 3
    /\ year_range = <<SliderMin, 2000>>
    /\ TupleOf(data[2]).year = 2020
    /\ TupleOf(data[3]).year = 2000
    /\ filtered_rows = <<data[3]>>

(***************************************************************************)
(* C2: in the two-series charts a quantity toggled off is a series of 0.0  *)
(* as long as the year axis, for the four toggle combinations, and a       *)
(* quantity left on has the series it has when both are on.                *)
(***************************************************************************)
BothOn == TwoSeriesChart(data, year_range, TRUE, TRUE)

C2_ToggledOffIsZeros ==
    (RunDone /\ ~Cover) =>
        /\ df.built =>
              /\ Len(df.index) = Len(years)
              /\ \A c \in ValueCols :
                    ~ToggledOn(c) => df.columns[c] = ZeroSeries(Len(years))
        /\ LET both == BothOn.df
           IN  both.built =>
                  /\ df.built
                  /\ df.index = both.index
                  /\ \A c \in ValueCols :
                        ToggledOn(c) => df.columns[c] = both.columns[c]

C2_Witness ==
    /\ RunDone /\ graph = "Vegetacion secundaria"
    /\ consolidated_veg /\ ~recovering_veg
    /\ df.built /\ Len(years) = 2
    /\ df.columns[2] = <<0, 0>>
    /\ df.columns[1] = <<125, 80>>

(***************************************************************************)
(* C3: in every chart every value series of the table is as long as the    *)
(* year sequence, and entry i of each series and year i come from the same *)
(* source row.                                                             *)
(***************************************************************************)
C3_SeriesAligned ==
    (RunDone /\ df.built) =>
        /\ Len(df.index) = Len(filtered_rows)
        /\ Len(df.columns) = Cardinality(ValueCols)
        /\ \A c \in ValueCols : Len(df.columns[c]) = Len(df.index)
        /\ \A i \in 1..Len(filtered_rows) :
              /\ df.index[i] = ParseInt(filtered_rows[i][YearCol + 1]).val
              /\ \A c \in ValueCols :
                    ToggledOn(c) =>
                        df.columns[c][i] = ParseFloat(filtered_rows[i][c]).val
              /\ IsKnownRow(filtered_rows[i]) =>
                    /\ df.index[i] = TupleOf(filtered_rows[i]).year
                    /\ \A c \in ValueCols :
                          ToggledOn(c) =>
                              df.columns[c][i] = TupleOf(filtered_rows[i]).values[c]

C3_Witness ==
    /\ RunDone /\ df.built /\ Cover
    /\ Len(filtered_rows) = 2
    /\ df.index = <<2020, 1990>>
    /\ df.columns[6] = <<10, 0>>

(***************************************************************************)
(* C4: when every row has a year and none is in the range, each chart      *)
(* builds a table of empty series and shows the "no data" message, with no *)
(* error, for every toggle combination.                                    *)
(***************************************************************************)
C4_EmptyIntersectionShowsInfo ==
    (RunDone /\ EveryDataRow(HasYearOutOfRange)) =>
        /\ raised = "none"
        /\ df.built
        /\ df.index = <<>>
        /\ \A c \in ValueCols : df.columns[c] = <<>>
        /\ shown = "info"

C4_Witness ==
    /\ RunDone /\ EveryDataRow(HasYearOutOfRange)
    /\ graph = "Perdida de Vegetacion"
    /\ ~primary_loss /\ secondary_loss
    /\ Len(data) = 3
    /\ shown = "info"

(***************************************************************************)
(* C5: a row with fewer columns than the chart reads is dropped by the     *)
(* filter and raises no error, in the three charts, for every row length.  *)
(***************************************************************************)
C5_ShortRowsDropped ==
    (RunDone /\ EveryDataRow(KnownOrShort)) =>
        /\ raised = "none"
        /\ filtered_rows = SelectSeq(DataRows, KnownInRange)

(***************************************************************************)
(* C6: a row whose year field is empty or only whitespace is dropped: it   *)
(* adds nothing to the year axis or to a series, and the other rows are    *)
(* processed without error.                                                *)
(***************************************************************************)
C6_BlankYearDropped ==
    (RunDone /\ EveryDataRow(KnownOrBlankYear)) =>
        /\ raised = "none"
        /\ filtered_rows = SelectSeq(DataRows, KnownInRange)
        /\ df.built
        /\ Len(df.index) = Len(filtered_rows)
        /\ \A c \in ValueCols : Len(df.columns[c]) = Len(filtered_rows)

C6_Witness ==
    /\ RunDone /\ EveryDataRow(KnownOrBlankYear)
    /\ Len(data) = 3
    /\ IsBlankYearRow(data[2])
    /\ data[2][YearCol + 1] = <<" ", " ">>
    /\ KnownInRange(data[3])
    /\ shown = "line_chart"
    /\ df.index = <<TupleOf(data[3]).year>>

(***************************************************************************)
(* C7: for every quantity toggled on, a kept row's entry that is not a     *)
(* number becomes 0 and raises no error, so the series has one value per   *)
(* kept row.                                                               *)
(***************************************************************************)
C7_NonNumericCoercedToZero ==
    (RunDone /\ EveryDataRow(KnownOrNonNumeric)) =>
        /\ raised = "none"
        /\ df.built
        /\ \A c \in ValueCols :
              /\ Len(df.columns[c]) = Len(filtered_rows)
              /\ \A i \in 1..Len(filtered_rows) :
                    (ToggledOn(c) /\ filtered_rows[i][c] = <<"x">>) =>
                        df.columns[c][i] = 0

(***************************************************************************)
(* C8: round trip: a 3-column file of N well-formed rows with every year   *)
(* in the range, both quantities on, gives back position by position the N *)
(* tuples (year, column 0, column 1) it was written from.                  *)
(***************************************************************************)
C8_RoundTrip ==
    (/\ RunDone /\ ~Cover
     /\ ToggledOn(1) /\ ToggledOn(2)
     /\ EveryDataRow(KnownInRange)) =>
        /\ df.built
        /\ Len(df.index) = Len(data) - 1
        /\ Len(df.columns[1]) = Len(data) - 1
        /\ Len(df.columns[2]) = Len(data) - 1
        /\ \A i \in 1..(Len(data) - 1) :
              <<df.index[i], df.columns[1][i], df.columns[2][i]>>
                  = <<TupleOf(data[i + 1]).year,
                      TupleOf(data[i + 1]).values[1],
                      TupleOf(data[i + 1]).values[2]>>

C8_Witness ==
    /\ RunDone /\ graph = "Perdida de Vegetacion"
    /\ primary_loss /\ secondary_loss
    /\ year_range = <<2000, SliderMax>>
    /\ Len(data) = 3
    /\ df.built
    /\ df.index = <<2000, 2020>>
    /\ df.columns[1] = <<125, 80>>
    /\ df.columns[2] = <<30, 10>>

(***************************************************************************)
(* Vocabulary of the map properties.                                       *)
(***************************************************************************)
AllKeys == {"iet", "ndmi", "savi", "evi", "ndbi", "region"}

Bound(name) == name \in DOMAIN locals

\* v is undefined or -1 <= v <= 1
InUnitRange(v) == IsDefined(v) => (Leq(Num(0 - 1), v) /\ Leq(v, Num(1)))

(***************************************************************************)
(* C9: get_all_data returns either the complete mapping with iet, ndmi,    *)
(* savi, evi, ndbi and region, or None when a step fails; never a partial  *)
(* mapping.                                                                *)
(***************************************************************************)
C9_AllOrNone ==
    ret.returned =>
        IF gee_error
        THEN ret.none /\ ret.value = <<>>
        ELSE /\ ~ret.none
             /\ DOMAIN ret.value = AllKeys
             /\ \A k \in AllKeys \ {"region"} : ret.value[k].image = locals[k]
             /\ ret.value["region"] = locals["region"]

C9_Witness ==
    /\ ret.returned /\ ret.none /\ gee_error
    /\ mpc = "done"
    /\ DOMAIN locals = {"region", "s2", "ndmi", "savi"}

(***************************************************************************)
(* C10 as stated: for non-negative band values each of NDMI, NDBI, SAVI    *)
(* and EVI lies in [-1, 1] whenever its denominator is not zero.           *)
(***************************************************************************)
C10_AllIndicesInUnitRange ==
    /\ Bound("ndmi") => InUnitRange(locals["ndmi"])
    /\ Bound("ndbi") => InUnitRange(locals["ndbi"])
    /\ Bound("savi") => InUnitRange(locals["savi"])
    /\ Bound("evi") => InUnitRange(locals["evi"])

(***************************************************************************)
(* C10 amended: for non-negative band values NDMI and NDBI lie in [-1, 1]  *)
(* whenever their denominator is not zero, and SAVI lies strictly between  *)
(* -1.5 and 1.5; SAVI and EVI are not bounded by [-1, 1].                  *)
(***************************************************************************)
C10_NormalizedDifferencesInUnitRange ==
    /\ Bound("ndmi") => InUnitRange(locals["ndmi"])
    /\ Bound("ndbi") => InUnitRange(locals["ndbi"])
    /\ Bound("savi") =>
          /\ IsDefined(locals["savi"])
          /\ Less(Frac(0 - 3, 2), locals["savi"])
          /\ Less(locals["savi"], Frac(3, 2))

C10_Witness ==
    /\ Bound("ndbi") /\ Bound("savi") /\ Bound("evi")
    /\ bands["B8"] = 2 /\ bands["B11"] = 0 /\ bands["B4"] = 0 /\ bands["B2"] = 1
    /\ locals["ndmi"] = Num(1)
    /\ locals["ndbi"] = Num(0 - 1)
    /\ locals["savi"] = Frac(6, 5)
    /\ locals["evi"] = Frac(0 - 10, 9)

(***************************************************************************)
(* C11: IET is (NDMI + SAVI + EVI) / (NDBI + 1), and on every band set on  *)
(* which NDBI is defined and NDBI >= 0 the denominator NDBI + 1 is not     *)
(* zero, so the division of IET is not a division by zero.                 *)
(***************************************************************************)
C11_IetOffsetGuardsDivision ==
    (/\ Bound("iet")
     /\ IsDefined(locals["ndbi"])
     /\ Leq(Num(0), locals["ndbi"])) =>
        LET den == Add(NormalizedDifference(bands, "B11", "B8"), Num(1))
            sum == Add(Add(locals["ndmi"], locals["savi"]), locals["evi"])
        IN  /\ IsDefined(den) /\ den.num # 0
            /\ IsDefined(sum) =>
                  /\ IsDefined(locals["iet"])
                  /\ Multiply(locals["iet"], den) = sum
            /\ ~IsDefined(sum) => ~IsDefined(locals["iet"])

C11_Witness ==
    /\ Bound("iet")
    /\ bands["B8"] = 1 /\ bands["B11"] = 1 /\ bands["B4"] = 0 /\ bands["B2"] = 0
    /\ locals["ndbi"] = Num(0)
    /\ locals["iet"] = Frac(9, 4)

(***************************************************************************)
(* C12: loading a CSV tries the default text encoding first; when that     *)
(* fails to decode it reads the file again as Latin-1, and only when that  *)
(* fails too is an error raised; a file that decodes as Latin-1 loads.     *)
(***************************************************************************)
C12_Latin1FallbackLoads ==
    RunDone =>
        LET first == DecodeRow(csvfile.header, csvfile.encoding)
            fallback == DecodeRow(csvfile.header, "latin-1")
        IN  /\ first.ok => (raised # "UnicodeDecodeError" /\ data[1] = first.row)
            /\ (~first.ok /\ fallback.ok) =>
                  (raised # "UnicodeDecodeError" /\ Len(data) >= 1
                   /\ data[1] = fallback.row)
            /\ raised = "UnicodeDecodeError" => (~first.ok /\ ~fallback.ok)

(***************************************************************************)
(* C13: every temporary key file that initialize_ee wrote is deleted by    *)
(* the time it returns, on success and on failure, on the dict path, the   *)
(* JSON-string path and the PEM fallback path.                             *)
(***************************************************************************)
C13_TempFilesDeletedOnReturn ==
    (epc = "done" /\ ee_ret # "pending") => written \cap tmpfiles = {}

(***************************************************************************)
(* C14: in main, for every selectable layer, an index layer is added to    *)
(* the map only after get_all_data was called and returned a mapping; main *)
(* never reads data before it is assigned; a run that shows the map has    *)
(* added exactly one index layer.                                          *)
(***************************************************************************)
C14_LayerOnlyAfterData ==
    /\ main_raised # "UnboundLocalError: data"
    /\ layers # <<>> => (data_bound /\ ret.returned /\ ~ret.none)
    /\ (mainpc = "done" /\ main_shown = "map") =>
          Cardinality({i \in DOMAIN layers : layers[i].name \in Capas}) = 1

====
